---- MODULE Spec2Model ----
(***************************************************************************)
(* Model of karibshams/auto_message: CommentReplyAI (src/app.py) and       *)
(* PromptGenerator (src/prompt.py), and the chat UI (src/test.py).        *)
(*                                                                         *)
(* Python text whose characters matter (comments, generated replies) is a  *)
(* record [type |-> "str", chars |-> <<"a", "b", ...>>]; the Python value   *)
(* None in such a position is [type |-> "NoneType"].  Tone, sentiment,     *)
(* model and error values are TLA+ strings, with the sentinel None.        *)
(***************************************************************************)
EXTENDS Integers, Sequences, FiniteSets, TLC

\* ------------------------------------------------------------------ bounds
\* a comment is a concatenation of at most MaxFragments fragments
MaxFragments == 2
\* a generated text has at most MaxTextLen characters
MaxTextLen == 2
\* batch_generate_replies is called with at most MaxBatch comments
MaxBatch == 2
\* a chat conversation holds at most MaxSends sent comments
MaxSends == 2

\* ------------------------------------------------------------ Python values
None == "<None>"
\* a name that is not (yet) in locals()
Unbound == "<unbound>"
\* a non-empty list passed where a tone string is expected: truthy, unhashable
UnhashableTone == "<list ['witty']>"

PyNone == [type |-> "NoneType"]
PyStr(cs) == [type |-> "str", chars |-> cs]
IsStr(v) == v.type = "str"

\* Python truthiness of an Optional[str] argument: None and "" are falsy
Truthy(v) == v # None /\ v # ""

\* a or b
PyOr(a, b) == IF Truthy(a) THEN a ELSE b

\* ------------------------------------------------------------ str methods
\* str.lower(), one character
LowerChar(c) ==
    CASE c = "A" -> "a" [] c = "B" -> "b" [] c = "C" -> "c" [] c = "D" -> "d"
      [] c = "E" -> "e" [] c = "F" -> "f" [] c = "G" -> "g" [] c = "H" -> "h"
      [] c = "I" -> "i" [] c = "J" -> "j" [] c = "K" -> "k" [] c = "L" -> "l"
      [] c = "M" -> "m" [] c = "N" -> "n" [] c = "O" -> "o" [] c = "P" -> "p"
      [] c = "Q" -> "q" [] c = "R" -> "r" [] c = "S" -> "s" [] c = "T" -> "t"
      [] c = "U" -> "u" [] c = "V" -> "v" [] c = "W" -> "w" [] c = "X" -> "x"
      [] c = "Y" -> "y" [] c = "Z" -> "z"
      [] OTHER -> c

\* str.lower()
Lower(cs) == [i \in 1..Len(cs) |-> LowerChar(cs[i])]

\* kw in cs  (substring containment)
Contains(kw, cs) ==
    \E i \in 0..(Len(cs) - Len(kw)) :
        \A j \in 1..Len(kw) : cs[i + j] = kw[j]

IsSpace(c) == c \in {" ", "\n", "\t"}

RECURSIVE LStrip(_)
LStrip(cs) ==
    IF cs # <<>> /\ IsSpace(Head(cs)) THEN LStrip(Tail(cs)) ELSE cs

RECURSIVE RStrip(_)
RStrip(cs) ==
    IF cs # <<>> /\ IsSpace(cs[Len(cs)])
    THEN RStrip(SubSeq(cs, 1, Len(cs) - 1))
    ELSE cs

\* str.strip()
Strip(cs) == RStrip(LStrip(cs))

\* --------------------------------------------------- sentiment classifier
struggling_keywords ==
    { <<"s", "t", "r", "u", "g", "g", "l", "e">>,
      <<"s", "t", "r", "u", "g", "g", "l", "i", "n", "g">>,
      <<"h", "a", "r", "d">>,
      <<"d", "i", "f", "f", "i", "c", "u", "l", "t">>,
      <<"d", "o", "u", "b", "t">>,
      <<"d", "o", "u", "b", "t", "i", "n", "g">>,
      <<"l", "o", "s", "t">>,
      <<"c", "o", "n", "f", "u", "s", "e", "d">>,
      <<"h", "u", "r", "t">>,
      <<"p", "a", "i", "n">>,
      <<"a", "f", "r", "a", "i", "d">>,
      <<"s", "c", "a", "r", "e", "d">>,
      <<"w", "o", "r", "r", "i", "e", "d">> }

positive_keywords ==
    { <<"t", "h", "a", "n", "k">>,
      <<"g", "r", "a", "t", "e", "f", "u", "l">>,
      <<"a", "m", "a", "z", "i", "n", "g">>,
      <<"b", "l", "e", "s", "s", "e", "d">>,
      <<"l", "o", "v", "e">>,
      <<"w", "o", "n", "d", "e", "r", "f", "u", "l">>,
      <<"b", "e", "a", "u", "t", "i", "f", "u", "l">>,
      <<"i", "n", "s", "p", "i", "r", "i", "n", "g">>,
      <<"h", "e", "l", "p", "e", "d">>,
      <<"e", "n", "c", "o", "u", "r", "a", "g", "i", "n", "g">> }

questioning_keywords ==
    { <<"w", "h", "y">>,
      <<"h", "o", "w">>,
      <<"w", "h", "a", "t">>,
      <<"w", "h", "e", "n">>,
      <<"w", "h", "e", "r", "e">>,
      <<"u", "n", "d", "e", "r", "s", "t", "a", "n", "d">>,
      <<"e", "x", "p", "l", "a", "i", "n">>,
      <<"c", "o", "n", "f", "u", "s", "e", "d">>,
      <<"u", "n", "c", "l", "e", "a", "r">>,
      <<"q", "u", "e", "s", "t", "i", "o", "n">> }

\* any(keyword in comment_lower for keyword in keywords)
AnyKeyword(keywords, comment_lower) ==
    \E keyword \in keywords : Contains(keyword, comment_lower)

\* a slip in the order of the branches: positive tested before struggling
analyze_comment_sentiment_PositiveFirst(cs) ==
    LET comment_lower == Lower(cs)
    IN  IF AnyKeyword(positive_keywords, comment_lower) THEN "positive"
        ELSE IF AnyKeyword(struggling_keywords, comment_lower) THEN "struggling"
        ELSE IF AnyKeyword(questioning_keywords, comment_lower) THEN "questioning"
        ELSE "neutral"

\* CommentReplyAI.analyze_comment_sentiment, on the characters of a str
analyze_comment_sentiment(cs) ==
    LET comment_lower == Lower(cs)
    IN  IF AnyKeyword(struggling_keywords, comment_lower) THEN "struggling"
        ELSE IF AnyKeyword(positive_keywords, comment_lower) THEN "positive"
        ELSE IF AnyKeyword(questioning_keywords, comment_lower) THEN "questioning"
        ELSE "neutral"

\* ------------------------------------------------------------ tone resolver
tone_mapping ==
    [ struggling  |-> "empathetic",
      positive    |-> "humble",
      questioning |-> "biblical",
      neutral     |-> "inviting" ]

\* a slip in the table: neutral comments answered in the witty tone
determine_tone_NeutralWitty(s) ==
    IF s = "neutral" THEN "witty"
    ELSE IF s \in DOMAIN tone_mapping THEN tone_mapping[s] ELSE "inviting"

\* CommentReplyAI.determine_tone: tone_mapping.get(sentiment, 'inviting')
determine_tone(s) ==
    IF s \in DOMAIN tone_mapping THEN tone_mapping[s] ELSE "inviting"

\* a slip: the override is ignored
resolve_tone_IgnoreOverride(ct, s) == determine_tone(s)

\* app.py line 102: custom_tone or self.determine_tone(sentiment)
resolve_tone(ct, s) == PyOr(ct, determine_tone(s))

\* ---------------------------------------------------------- prompt composer
tone_guidelines ==
    [ empathetic |->
        [ description |-> "Compassionate and acknowledges the emotion behind the comment",
          style       |-> "gentle, understanding, validating feelings",
          focus       |-> "emotional support and spiritual comfort" ],
      biblical |->
        [ description |-> "Rooted in spiritual truth without being overly formal",
          style       |-> "wise, grounded in faith, thoughtful",
          focus       |-> "spiritual guidance and biblical wisdom" ],
      inviting |->
        [ description |-> "Leaves space for dialogue and reflection",
          style       |-> "open-ended, encouraging conversation",
          focus       |-> "fostering connection and continued dialogue" ],
      humble |->
        [ description |-> "Points back to God and comes from a place of grace",
          style       |-> "modest, grateful, God-centered",
          focus       |-> "deflecting praise to God and expressing gratitude" ],
      witty |->
        [ description |-> "Light, faith-filled humor when appropriate",
          style       |-> "gentle humor, joy-filled, lighthearted",
          focus       |-> "bringing joy while maintaining spiritual depth" ] ]

base_instructions == "Your response should be: ... Avoid: ..."

\* the attributes of the PromptGenerator instance: tone_guidelines, base_instructions
VARIABLE prompt_generator

\* PromptGenerator.__init__
InitPromptGenerator ==
    [ tone_guidelines |-> tone_guidelines, base_instructions |-> base_instructions ]

\* the if/elif chain of create_prompt: the literal block of each tone, named by
\* its first sentence; the block ends with "Be {tone_info['style']}"
tone_specific(tone) ==
    IF tone = "empathetic"
    THEN "The user seems to be experiencing difficulty or struggle. Your reply should:"
    ELSE IF tone = "biblical"
    THEN "The user appears to be seeking understanding or has questions. Your reply should:"
    ELSE IF tone = "inviting"
    THEN "Your reply should encourage continued conversation and reflection. It should:"
    ELSE IF tone = "humble"
    THEN "The user seems positive or grateful. Your reply should:"
    ELSE IF tone = "witty"
    THEN "Your reply should bring some lightness while maintaining spiritual depth. It should:"
    ELSE Unbound

\* `tone not in self.tone_guidelines` raises TypeError for an unhashable tone
create_prompt_raises(tone) == tone = UnhashableTone

unhashable_message == "unhashable type: 'list'"

\* a slip: no fallback, the profile lookup of an unknown tone then fails
\* (KeyError), shown as a prompt without block and profile
create_prompt_NoFallback(comment, tone) ==
    IF tone \in DOMAIN prompt_generator.tone_guidelines
    THEN [ comment       |-> comment,
           tone_specific |-> tone_specific(tone),
           style         |-> prompt_generator.tone_guidelines[tone].style,
           base          |-> prompt_generator.base_instructions,
           description   |-> prompt_generator.tone_guidelines[tone].description,
           focus         |-> prompt_generator.tone_guidelines[tone].focus ]
    ELSE [ comment       |-> comment,
           tone_specific |-> Unbound,
           style         |-> Unbound,
           base          |-> prompt_generator.base_instructions,
           description   |-> Unbound,
           focus         |-> Unbound ]

\* PromptGenerator.create_prompt for a hashable tone: the parts of the f-string
\* in their order; the final strip() removes only the leading newline and the
\* trailing blanks of the literal, the quoted comment lies inside
create_prompt(comment, tone) ==
    LET t         == IF tone \notin DOMAIN prompt_generator.tone_guidelines
                     THEN "inviting" ELSE tone
        tone_info == prompt_generator.tone_guidelines[t]
    IN  [ comment       |-> comment,
          tone_specific |-> tone_specific(t),
          style         |-> tone_info.style,
          base          |-> prompt_generator.base_instructions,
          description   |-> tone_info.description,
          focus         |-> tone_info.focus ]

\* ------------------------------------------------------------------ inputs
\* "Hard" holds a struggling keyword and "Thank" a positive one once lower-cased;
\* "w" and "hy" hold none, their concatenation "why" is a questioning keyword
Fragments ==
    { <<"H", "a", "r", "d">>, <<"T", "h", "a", "n", "k">>, <<"w">>, <<"h", "y">> }

RECURSIVE Concats(_)
Concats(n) ==
    IF n = 0 THEN {<<>>}
    ELSE LET shorter == Concats(n - 1)
         IN  shorter \cup {cs \o f : cs \in shorter, f \in Fragments}

\* the comments a caller passes: str values, and None
Comments == {PyStr(cs) : cs \in Concats(MaxFragments)} \cup {PyNone}

KnownTones == {"empathetic", "biblical", "inviting", "humble", "witty"}
Sentiments == {"struggling", "positive", "questioning", "neutral"}

\* values of str type passed as tone
ToneStrings == KnownTones \cup {"", "sarcastic"}

\* custom_tone arguments of generate_reply
ToneArgs == ToneStrings \cup {None, UnhashableTone}

\* model arguments of generate_reply
ModelArgs == {None, "gpt-3.5-turbo"}

TextChars == {" ", "a"}

RECURSIVE Texts(_)
Texts(n) ==
    IF n = 0 THEN {<<>>}
    ELSE LET shorter == Texts(n - 1)
         IN  shorter \cup {cs \o <<c>> : cs \in shorter, c \in TextChars}

\* what the provider does with one chat.completions.create call
ProviderFailures ==
    { [kind |-> "raise", message |-> m] :
        m \in {"Connection error.", "Incorrect API key provided", "Rate limit reached"} }

MalformedResponses ==
    { [kind |-> "response", choices |-> <<>>],
      [kind |-> "response", choices |-> <<[content |-> PyNone]>>] }

TextResponses(texts) ==
    { [kind |-> "response", choices |-> <<[content |-> PyStr(cs)]>>] : cs \in texts }

ProviderOutcomes ==
    ProviderFailures \cup MalformedResponses \cup TextResponses(Texts(MaxTextLen))

\* the inputs of the batch runs
BatchComments == {PyStr(<<"H", "a", "r", "d">>), PyStr(<<"T", "h", "a", "n", "k">>), PyNone}
BatchTones == {"witty"}
BatchProviderOutcomes ==
    { [kind |-> "raise", message |-> "Connection error."] }
        \cup TextResponses({<<"a", " ">>})

BatchCommentLists == UNION {[1..n -> BatchComments] : n \in 0..MaxBatch}

\* Optional[Dict[int, str]]: not given (None), or a dict on some indices
BatchToneArgs(n) ==
    { [given |-> FALSE, map |-> [k \in {} |-> None]] } \cup
    { [given |-> TRUE, map |-> f] :
        f \in UNION {[D -> BatchTones] : D \in SUBSET (0..(n - 1))} }

\* ------------------------------------------------------------------- state
VARIABLES
    self,           \* CommentReplyAI attributes model, max_tokens, temperature, top_p
    mode,           \* the entry point running: idle, single, batch, prompt, ui
    pc,             \* the source line about to run
    comment,        \* generate_reply: argument comment
    custom_tone,    \* generate_reply: argument custom_tone
    model,          \* generate_reply: local model (line 98)
    sentiment,      \* generate_reply: local sentiment, Unbound before line 101
    tone,           \* generate_reply: local tone, Unbound before line 102
    prompt,         \* generate_reply: local prompt
    provider,       \* what the provider did with the call of line 108
    exc,            \* str(e) of the exception raised, None if none
    failedAt,       \* the line that raised, "none" if none
    sent,           \* the request handed to chat.completions.create
    api_calls,      \* external calls issued by the running generate_reply
    result,         \* the dict generate_reply returns
    comments,       \* batch_generate_replies: argument comments
    custom_tones,   \* batch_generate_replies: local custom_tones (line 150)
    i,              \* batch_generate_replies: loop index
    results,        \* batch_generate_replies: local results
    apiLog,         \* per batch index, what the provider did (history)
    env_key,        \* os.getenv('OPENAI_API_KEY'), None if unset
    key_arg,        \* CommentReplyAI.__init__: argument api_key
    api_key,        \* CommentReplyAI attribute api_key
    client,         \* CommentReplyAI attribute client
    init_error,     \* the message of the ValueError of __init__, None if none
    messages,       \* test.py st.session_state.messages
    stats           \* test.py st.session_state.stats

vars ==
    << self, prompt_generator, mode, pc, comment, custom_tone, model, sentiment,
       tone, prompt, provider, exc, failedAt, sent, api_calls, result, comments,
       custom_tones, i, results, apiLog, env_key, key_arg, api_key, client,
       init_error, messages, stats >>

credVars == << env_key, key_arg, api_key, client, init_error >>

\* the CommentReplyAI instance and what it was built from
instVars == << self, prompt_generator, credVars >>

\* the session state of the chat UI
uiVars == << messages, stats >>

callVars ==
    << comment, custom_tone, model, sentiment, tone, prompt, provider, exc,
       failedAt, sent, api_calls, result >>

batchVars == << comments, custom_tones, i, results, apiLog >>

NoPrompt == [unbound |-> TRUE]
NoProvider == [kind |-> "not called"]
NoRequest == [unbound |-> TRUE]
NoResult == [unbound |-> TRUE]
EmptyDict == [k \in {} |-> None]

system_content ==
    "You are a compassionate spiritual guide who responds to comments with empathy, wisdom, and grace. Your responses should be authentic, humble, and grounded in spiritual truth."

\* CommentReplyAI.__init__ lines 23-26, environment unset
InitSelf ==
    [ model |-> "gpt-4", max_tokens |-> 300, temperature |-> "0.7", top_p |-> "0.9" ]

IdleCall ==
    /\ comment = PyNone /\ custom_tone = None /\ model = None
    /\ sentiment = Unbound /\ tone = Unbound /\ prompt = NoPrompt
    /\ provider = NoProvider /\ exc = None /\ failedAt = "none"
    /\ sent = NoRequest /\ api_calls = 0 /\ result = NoResult

IdleBatch ==
    /\ comments = <<>> /\ custom_tones = EmptyDict /\ i = 0
    /\ results = <<>> /\ apiLog = <<>>

NoClient == [unbound |-> TRUE]

\* OpenAI(api_key=k)
OpenAI(k) == [api_key |-> k]

\* test.py lines 124-130: the stats of a fresh session
InitStats ==
    [ total_messages         |-> 0,
      successful_replies     |-> 0,
      tone_usage             |-> [t \in {} |-> 0],
      sentiment_distribution |-> [t \in {} |-> 0] ]

\* test.py lines 119-130: a fresh session, nothing sent
IdleUI == messages = <<>> /\ stats = InitStats

\* an instance built by CommentReplyAI() with OPENAI_API_KEY set in the environment
Constructed ==
    /\ self = InitSelf
    /\ prompt_generator = InitPromptGenerator
    /\ env_key = "sk-env" /\ key_arg = None
    /\ api_key = "sk-env" /\ client = OpenAI("sk-env")
    /\ init_error = None

Init ==
    /\ Constructed
    /\ mode = "idle" /\ pc = "idle"
    /\ IdleCall
    /\ IdleBatch
    /\ IdleUI

\* the caller has the returned value; the frame is gone
ToIdle ==
    /\ mode' = "idle" /\ pc' = "idle"
    /\ comment' = PyNone /\ custom_tone' = None /\ model' = None
    /\ sentiment' = Unbound /\ tone' = Unbound /\ prompt' = NoPrompt
    /\ provider' = NoProvider /\ exc' = None /\ failedAt' = "none"
    /\ sent' = NoRequest /\ api_calls' = 0 /\ result' = NoResult
    /\ comments' = <<>> /\ custom_tones' = EmptyDict /\ i' = 0
    /\ results' = <<>> /\ apiLog' = <<>>
    /\ UNCHANGED << instVars, uiVars >>

\* ---------------------------------------------------------- generate_reply
\* entry of generate_reply and line 98: model = model or self.model
Enter(c, ct, m) ==
    /\ comment' = c /\ custom_tone' = ct
    /\ model' = PyOr(m, self.model)
    /\ sentiment' = Unbound /\ tone' = Unbound /\ prompt' = NoPrompt
    /\ provider' = NoProvider /\ exc' = None /\ failedAt' = "none"
    /\ sent' = NoRequest /\ api_calls' = 0 /\ result' = NoResult
    /\ pc' = "L101"

\* a slip: a failed external call is attempted once more before it is surfaced
Raise_RetryCall(message, line) ==
    IF line = "L108" /\ api_calls = 0
    THEN exc' = exc /\ failedAt' = failedAt /\ pc' = "L108"
    ELSE exc' = message /\ failedAt' = line /\ pc' = "L129"

\* an exception raised inside the try block: control goes to line 129
Raise(message, line) ==
    /\ exc' = message /\ failedAt' = line /\ pc' = "L129"

\* a slip: the model override is stored in the instance (self.model = model or
\* self.model) and so becomes the default of the calls that follow
generate_reply_StoresModel(c, ct, m) ==
    /\ pc = "idle"
    /\ mode' = "single"
    /\ Enter(c, ct, m)
    /\ self' = [self EXCEPT !.model = PyOr(m, self.model)]
    /\ UNCHANGED << prompt_generator, credVars, uiVars, batchVars >>

generate_reply(c, ct, m) ==
    /\ pc = "idle"
    /\ mode' = "single"
    /\ Enter(c, ct, m)
    /\ UNCHANGED << instVars, uiVars, batchVars >>

\* line 101: sentiment = self.analyze_comment_sentiment(comment)
L101 ==
    /\ pc = "L101"
    /\ IF IsStr(comment)
       THEN /\ sentiment' = analyze_comment_sentiment(comment.chars)
            /\ pc' = "L102"
            /\ UNCHANGED << exc, failedAt >>
       ELSE /\ Raise("'NoneType' object has no attribute 'lower'", "L101")
            /\ UNCHANGED sentiment
    /\ UNCHANGED << instVars, uiVars, mode, comment, custom_tone, model, tone, prompt,
                    provider, sent, api_calls, result, batchVars >>

\* line 102: tone = custom_tone or self.determine_tone(sentiment)
L102 ==
    /\ pc = "L102"
    /\ tone' = resolve_tone(custom_tone, sentiment)
    /\ pc' = "L105"
    /\ UNCHANGED << instVars, uiVars, mode, comment, custom_tone, model, sentiment, prompt,
                    provider, exc, failedAt, sent, api_calls, result, batchVars >>

\* line 105: prompt = self.prompt_generator.create_prompt(comment, tone)
L105 ==
    /\ pc = "L105"
    /\ IF create_prompt_raises(tone)
       THEN /\ Raise(unhashable_message, "L105")
            /\ UNCHANGED prompt
       ELSE /\ prompt' = create_prompt(comment, tone)
            /\ pc' = "L108"
            /\ UNCHANGED << exc, failedAt >>
    /\ UNCHANGED << instVars, uiVars, mode, comment, custom_tone, model, sentiment, tone,
                    provider, sent, api_calls, result, batchVars >>

Outcomes ==
    IF mode \in {"batch", "ui"} THEN BatchProviderOutcomes ELSE ProviderOutcomes

\* lines 108-117: response = self.client.chat.completions.create(...)
L108 ==
    /\ pc = "L108"
    /\ sent' = [ model       |-> model,
                 system      |-> system_content,
                 user        |-> prompt,
                 max_tokens  |-> self.max_tokens,
                 temperature |-> self.temperature,
                 top_p       |-> self.top_p ]
    /\ api_calls' = api_calls + 1
    /\ \E r \in Outcomes :
        /\ provider' = r
        /\ IF r.kind = "raise"
           THEN Raise(r.message, "L108")
           ELSE pc' = "L119" /\ UNCHANGED << exc, failedAt >>
    /\ UNCHANGED << instVars, uiVars, mode, comment, custom_tone, model, sentiment, tone,
                    prompt, result, batchVars >>

\* a slip: the generated text is returned untrimmed
SuccessResult_NoStrip(content) ==
    [ reply              |-> content,
      tone_used          |-> tone,
      sentiment_detected |-> sentiment,
      success            |-> TRUE,
      error              |-> None ]

\* lines 119-127: the dict returned after a normal response with text
SuccessResult(content) ==
    [ reply              |-> PyStr(Strip(content.chars)),
      tone_used          |-> tone,
      sentiment_detected |-> sentiment,
      success            |-> TRUE,
      error              |-> None ]

\* lines 119-127: ai_reply = response.choices[0].message.content.strip(); return
L119 ==
    /\ pc = "L119"
    /\ IF provider.choices = <<>>
       THEN /\ Raise("list index out of range", "L119")
            /\ UNCHANGED result
       ELSE IF ~IsStr(provider.choices[1].content)
       THEN /\ Raise("'NoneType' object has no attribute 'strip'", "L119")
            /\ UNCHANGED result
       ELSE /\ result' = SuccessResult(provider.choices[1].content)
            /\ pc' = "returned"
            /\ UNCHANGED << exc, failedAt >>
    /\ UNCHANGED << instVars, uiVars, mode, comment, custom_tone, model, sentiment, tone,
                    prompt, provider, sent, api_calls, batchVars >>

\* x if 'x' in locals() else None
LocalOrNone(x) == IF x = Unbound THEN None ELSE x

\* a slip: the handler reports neither sentiment nor tone
FailureResult_DropsLocals ==
    [ reply              |-> PyNone,
      tone_used          |-> None,
      sentiment_detected |-> None,
      success            |-> FALSE,
      error              |-> exc ]

\* a slip: the handler reports a default tone when tone is not bound
FailureResult_DefaultTone ==
    [ reply              |-> PyNone,
      tone_used          |-> IF tone = Unbound THEN "inviting" ELSE tone,
      sentiment_detected |-> LocalOrNone(sentiment),
      success            |-> FALSE,
      error              |-> exc ]

\* lines 130-136: the dict returned by the except branch
FailureResult ==
    [ reply              |-> PyNone,
      tone_used          |-> LocalOrNone(tone),
      sentiment_detected |-> LocalOrNone(sentiment),
      success            |-> FALSE,
      error              |-> exc ]

\* lines 129-136: except Exception as e: return {...}
L129 ==
    /\ pc = "L129"
    /\ result' = FailureResult
    /\ pc' = "returned"
    /\ UNCHANGED << instVars, uiVars, mode, comment, custom_tone, model, sentiment, tone,
                    prompt, provider, exc, failedAt, sent, api_calls, batchVars >>

\* generate_reply returns to an outside caller
Return ==
    /\ pc = "returned" /\ mode = "single"
    /\ ToIdle

\* -------------------------------------------------- batch_generate_replies
\* lines 149-150: results = []; custom_tones = custom_tones or {}
batch_generate_replies(cs, cts) ==
    /\ pc = "idle"
    /\ mode' = "batch"
    /\ comments' = cs
    /\ custom_tones' = IF cts.given /\ DOMAIN cts.map # {} THEN cts.map ELSE EmptyDict
    /\ i' = 0
    /\ results' = <<>>
    /\ apiLog' = <<>>
    /\ pc' = "L152"
    /\ UNCHANGED << instVars, uiVars, callVars >>

\* custom_tones.get(i)
DictGet(d, k) == IF k \in DOMAIN d THEN d[k] ELSE None

\* a slip: the override of the next index is looked up
NextOverride_OffByOne == DictGet(custom_tones, i + 1)

\* line 153: custom_tone = custom_tones.get(i)
NextOverride == DictGet(custom_tones, i)

\* lines 152-154: the loop head; calls generate_reply(comment, custom_tone)
L152 ==
    /\ pc = "L152" /\ mode = "batch"
    /\ i < Len(comments)
    /\ Enter(comments[i + 1], NextOverride, None)
    /\ UNCHANGED << instVars, uiVars, mode, batchVars >>

\* a slip: the loop stops at the first failed reply
LoopAfter_BreakOnFailure == IF result.success THEN "L152" ELSE "L157"

\* after line 155 the loop goes on with the next comment
LoopAfter == "L152"

\* line 155: results.append(result)
L155 ==
    /\ pc = "returned" /\ mode = "batch"
    /\ results' = Append(results, result)
    /\ apiLog' = Append(apiLog, provider)
    /\ i' = i + 1
    /\ pc' = LoopAfter
    /\ UNCHANGED << instVars, uiVars, mode, callVars, comments, custom_tones >>

\* the loop is exhausted
L152Exit ==
    /\ pc = "L152" /\ mode = "batch"
    /\ i >= Len(comments)
    /\ pc' = "L157"
    /\ UNCHANGED << instVars, uiVars, mode, callVars, batchVars >>

\* line 157: return results
L157 ==
    /\ pc = "L157"
    /\ ToIdle

\* --------------------------------------------------------- generate_prompt
\* prompt.py generate_prompt: PromptGenerator().create_prompt(comment, tone);
\* an exception of create_prompt reaches the caller
generate_prompt(c, t) ==
    /\ pc = "idle"
    /\ mode' = "prompt"
    /\ comment' = c
    /\ tone' = t
    /\ IF create_prompt_raises(t)
       THEN /\ exc' = unhashable_message /\ failedAt' = "L64"
            /\ pc' = "prompt_raised"
            /\ UNCHANGED prompt
       ELSE /\ prompt' = create_prompt(c, t)
            /\ pc' = "prompt_returned"
            /\ UNCHANGED << exc, failedAt >>
    /\ UNCHANGED << instVars, uiVars, custom_tone, model, sentiment, provider, sent,
                    api_calls, result, batchVars >>

PromptDone ==
    /\ pc \in {"prompt_returned", "prompt_raised"}
    /\ ToIdle

\* ---------------------------------------------------------- specification
CallSingle == \E c \in Comments, ct \in ToneArgs, m \in ModelArgs : generate_reply(c, ct, m)

CallBatch ==
    \E cs \in BatchCommentLists :
        \E cts \in BatchToneArgs(Len(cs)) : batch_generate_replies(cs, cts)

CallPrompt ==
    \E c \in Comments \ {PyNone}, t \in ToneStrings \cup {UnhashableTone} :
        generate_prompt(c, t)

Next ==
    \/ CallSingle
    \/ L101
    \/ L102
    \/ L105
    \/ L108
    \/ L119
    \/ L129
    \/ Return
    \/ CallBatch
    \/ L152
    \/ L155
    \/ L152Exit
    \/ L157
    \/ CallPrompt
    \/ PromptDone

Spec == Init /\ [][Next]_vars

\* ------------------------------------------------------- chat UI (test.py)
\* str.title() of the tone names, as the selectbox shows them
TitleOf ==
    [ empathetic |-> "Empathetic", biblical |-> "Biblical", inviting |-> "Inviting",
      humble |-> "Humble", witty |-> "Witty" ]

\* the options of the tone selectbox: ["Auto"] + [tone.title() ...]
MenuOptions == {"Auto"} \cup {TitleOf[t] : t \in DOMAIN tone_guidelines}

\* str.lower() of a selectbox option other than Auto
LowerOfOption(o) == CHOOSE t \in DOMAIN TitleOf : TitleOf[t] = o

\* line 337: custom_tone = None if tone_override == "Auto" else tone_override.lower()
CustomToneOf(o) == IF o = "Auto" THEN None ELSE LowerOfOption(o)

\* the options chosen and the texts typed in the runs of the chat
UIOptions == {"Auto", "Witty"}
UIInputs == { <<"H", "a", "r", "d">>, <<" ", "w">>, <<" ">> }

\* d.get(k, default) on a dict with string keys
DictGetOr(d, k, default) == IF k \in DOMAIN d THEN d[k] ELSE default

ErrorPlaceholder == PyStr(<<"E", "r", "r", "o", "r", " ", "g", "e", "n", "e", "r", "a", "t", "i", "n", "g", " ", "r", "e", "p", "l", "y">>)

\* d[k] = d.get(k, 0) + 1
Increment(d, k) ==
    [ x \in DOMAIN d \cup {k} |->
        IF x = k THEN (IF k \in DOMAIN d THEN d[k] ELSE 0) + 1 ELSE d[x] ]

\* a slip: tone and sentiment are counted for failed replies too
update_stats_CountsFailures(st, r) ==
    LET counted ==
            [ st EXCEPT !.total_messages = @ + 1,
                        !.tone_usage =
                            Increment(@, DictGetOr(r, "tone_used", "unknown")),
                        !.sentiment_distribution =
                            Increment(@, DictGetOr(r, "sentiment_detected", "unknown")) ]
    IN  IF DictGetOr(r, "success", FALSE) = TRUE
        THEN [counted EXCEPT !.successful_replies = @ + 1]
        ELSE counted

\* test.py update_stats(result), on the stats st
update_stats(st, r) ==
    LET counted == [st EXCEPT !.total_messages = @ + 1]
    IN  IF DictGetOr(r, "success", FALSE) = TRUE
        THEN [ counted EXCEPT !.successful_replies = @ + 1,
                              !.tone_usage =
                                  Increment(@, DictGetOr(r, "tone_used", "unknown")),
                              !.sentiment_distribution =
                                  Increment(@, DictGetOr(r, "sentiment_detected", "unknown")) ]
        ELSE counted

\* lines 349-357: the AI message built from the result (timestamp left out)
AiMessage(r) ==
    [ type      |-> "ai",
      reply     |-> DictGetOr(r, "reply", ErrorPlaceholder),
      sentiment |-> DictGetOr(r, "sentiment_detected", "unknown"),
      tone      |-> DictGetOr(r, "tone_used", "unknown"),
      success   |-> DictGetOr(r, "success", FALSE),
      error     |-> DictGetOr(r, "error", None) ]

\* f"{value}" of a str or of None
FormatValue(v) == IF IsStr(v) THEN v.chars ELSE <<"N", "o", "n", "e">>

\* render_message, AI branch: the reply text shown for a message
\* (reply_text = message.get('reply', 'Error generating reply'), then the f-string)
DisplayedReply(message) == FormatValue(DictGetOr(message, "reply", ErrorPlaceholder))

\* render_message, AI branch: the status icon
StatusIcon(message) == IF DictGetOr(message, "success", FALSE) = TRUE THEN "ok" ELSE "error"

\* main, lines 319-343: Send pressed with text u typed and option o chosen;
\* nothing happens when the stripped text is empty
Send(u, o) ==
    /\ pc = "idle"
    /\ Strip(u) # <<>>
    /\ Len(messages) < 2 * MaxSends
    /\ messages' = Append(messages, [type |-> "user", content |-> PyStr(Strip(u))])
    /\ mode' = "ui"
    /\ Enter(PyStr(Strip(u)), CustomToneOf(o), None)
    /\ UNCHANGED << instVars, stats, batchVars >>

\* main, lines 346-361 and 380: the result is back; the AI message is appended,
\* the stats are updated and the script reruns.  The except branch of lines
\* 363-377 needs generate_reply to raise, which it never does.
L349 ==
    /\ pc = "returned" /\ mode = "ui"
    /\ messages' = Append(messages, AiMessage(result))
    /\ stats' = update_stats(stats, result)
    /\ mode' = "idle" /\ pc' = "idle"
    /\ comment' = PyNone /\ custom_tone' = None /\ model' = None
    /\ sentiment' = Unbound /\ tone' = Unbound /\ prompt' = NoPrompt
    /\ provider' = NoProvider /\ exc' = None /\ failedAt' = "none"
    /\ sent' = NoRequest /\ api_calls' = 0 /\ result' = NoResult
    /\ UNCHANGED << instVars, batchVars >>

\* main, lines 216-224: Clear Conversation pressed
ClearConversation ==
    /\ pc = "idle"
    /\ messages' = <<>>
    /\ stats' = InitStats
    /\ UNCHANGED << instVars, mode, pc, callVars, batchVars >>

CallSend == \E u \in UIInputs, o \in UIOptions : Send(u, o)

NextUI ==
    \/ CallSend
    \/ L101
    \/ L102
    \/ L105
    \/ L108
    \/ L119
    \/ L129
    \/ L349
    \/ ClearConversation

SpecUI == Init /\ [][NextUI]_vars

\* ------------------------------------------------ CommentReplyAI.__init__
\* what os.getenv('OPENAI_API_KEY') gives: unset, set empty, set
EnvKeys == {None, "", "sk-env"}

\* api_key arguments of CommentReplyAI and of generate_comment_reply
KeyArgs == {None, "", "sk-arg"}

NoInstance == [unbound |-> TRUE]

missing_key_message ==
    "OpenAI API key is required. Set OPENAI_API_KEY in .env file or pass api_key parameter."

\* a slip: only an absent key is refused, an empty one is accepted
CredentialMissing_NoneOnly(k) == k = None

\* line 19: not self.api_key
CredentialMissing(k) == ~Truthy(k)

\* lines 18-30 of __init__ with argument k; control goes on at line `after`
\* when the instance is built, the ValueError leaves the caller otherwise
InitBody(k, after) ==
    LET key == PyOr(k, env_key)
    IN  /\ key_arg' = k
        /\ api_key' = key
        /\ IF CredentialMissing(key)
           THEN /\ init_error' = missing_key_message
                /\ pc' = "init_failed"
                /\ UNCHANGED << self, client, prompt_generator >>
           ELSE /\ self' = InitSelf
                /\ client' = OpenAI(key)
                /\ prompt_generator' = InitPromptGenerator
                /\ init_error' = None
                /\ pc' = after
        /\ UNCHANGED env_key

\* CommentReplyAI(k) by a caller that keeps the instance
Construct(k) ==
    /\ pc = "new"
    /\ InitBody(k, "idle")
    /\ UNCHANGED << mode, callVars, batchVars, uiVars >>

\* generate_comment_reply(c, k, t), line 173: ai_system = CommentReplyAI(api_key)
generate_comment_reply(c, k, t) ==
    /\ pc = "new"
    /\ mode' = "single"
    /\ comment' = c /\ custom_tone' = t
    /\ InitBody(k, "L174")
    /\ UNCHANGED << model, sentiment, tone, prompt, provider, exc, failedAt,
                    sent, api_calls, result, batchVars, uiVars >>

\* generate_comment_reply line 174: return ai_system.generate_reply(comment, tone)
L174 ==
    /\ pc = "L174"
    /\ Enter(comment, custom_tone, None)
    /\ UNCHANGED << instVars, uiVars, mode, batchVars >>

\* the inputs of the runs that start before the instance exists
CredComments == {PyStr(<<"H", "a", "r", "d">>), PyNone}
CredTones == {None, "witty"}

\* nothing is constructed yet; the environment holds any of the key values
InitNew ==
    /\ self = NoInstance /\ prompt_generator = NoInstance
    /\ env_key \in EnvKeys
    /\ key_arg = None /\ api_key = None /\ client = NoClient /\ init_error = None
    /\ mode = "idle" /\ pc = "new"
    /\ IdleCall
    /\ IdleBatch
    /\ IdleUI

CallConstruct == \E k \in KeyArgs : Construct(k)

CallConvenience ==
    \E c \in CredComments, k \in KeyArgs, t \in CredTones : generate_comment_reply(c, k, t)

CallOnInstance ==
    \E c \in CredComments, ct \in CredTones : generate_reply(c, ct, None)

NextCredential ==
    \/ CallConstruct
    \/ CallConvenience
    \/ L174
    \/ CallOnInstance
    \/ L101
    \/ L102
    \/ L105
    \/ L108
    \/ L119
    \/ L129
    \/ Return

SpecCredential == InitNew /\ [][NextCredential]_vars

\* ------------------------------------------------- vocabulary of the claims
InReply == mode \in {"single", "batch"}

Returned == InReply /\ pc = "returned"

\* the external call was reached by the running generate_reply
ReachedCall == api_calls >= 1

HasStruggling(cs) == \E kw \in struggling_keywords : Contains(kw, Lower(cs))
HasPositive(cs) == \E kw \in positive_keywords : Contains(kw, Lower(cs))
HasQuestioning(cs) == \E kw \in questioning_keywords : Contains(kw, Lower(cs))

\* s is the category the priority order struggling > positive > questioning >
\* neutral gives the text cs
ClassifiedAs(cs, s) ==
    IF HasStruggling(cs) THEN s = "struggling"
    ELSE IF HasPositive(cs) THEN s = "positive"
    ELSE IF HasQuestioning(cs) THEN s = "questioning"
    ELSE s = "neutral"

\* t is the default tone of sentiment s
DefaultToneOf(s, t) ==
    /\ s = "struggling" => t = "empathetic"
    /\ s = "positive" => t = "humble"
    /\ s = "questioning" => t = "biblical"
    /\ s = "neutral" => t = "inviting"
    /\ s \in Sentiments

\* r is t without its leading and trailing whitespace
IsTrimOf(r, t) ==
    /\ r = <<>> \/ (~IsSpace(r[1]) /\ ~IsSpace(r[Len(r)]))
    /\ \E a \in 0..Len(t) :
        /\ a + Len(r) <= Len(t)
        /\ \A k \in 1..Len(r) : t[a + k] = r[k]
        /\ \A k \in 1..Len(t) : (k <= a \/ k > a + Len(r)) => IsSpace(t[k])

\* the prompt p carries the instructional block and the ToneProfile of tone t
PromptOfTone(p, t) ==
    /\ t \in KnownTones
    /\ t = "empathetic" =>
        /\ p.tone_specific = "The user seems to be experiencing difficulty or struggle. Your reply should:"
        /\ p.style = "gentle, understanding, validating feelings"
        /\ p.description = "Compassionate and acknowledges the emotion behind the comment"
        /\ p.focus = "emotional support and spiritual comfort"
    /\ t = "biblical" =>
        /\ p.tone_specific = "The user appears to be seeking understanding or has questions. Your reply should:"
        /\ p.style = "wise, grounded in faith, thoughtful"
        /\ p.description = "Rooted in spiritual truth without being overly formal"
        /\ p.focus = "spiritual guidance and biblical wisdom"
    /\ t = "inviting" =>
        /\ p.tone_specific = "Your reply should encourage continued conversation and reflection. It should:"
        /\ p.style = "open-ended, encouraging conversation"
        /\ p.description = "Leaves space for dialogue and reflection"
        /\ p.focus = "fostering connection and continued dialogue"
    /\ t = "humble" =>
        /\ p.tone_specific = "The user seems positive or grateful. Your reply should:"
        /\ p.style = "modest, grateful, God-centered"
        /\ p.description = "Points back to God and comes from a place of grace"
        /\ p.focus = "deflecting praise to God and expressing gratitude"
    /\ t = "witty" =>
        /\ p.tone_specific = "Your reply should bring some lightness while maintaining spiritual depth. It should:"
        /\ p.style = "gentle humor, joy-filled, lighthearted"
        /\ p.description = "Light, faith-filled humor when appropriate"
        /\ p.focus = "bringing joy while maintaining spiritual depth"

C2_DefaultTone ==
    InReply /\ custom_tone = None /\ tone # Unbound =>
        /\ DefaultToneOf(sentiment, tone)
        /\ tone # "witty"
        /\ Returned =>
            /\ result.tone_used = tone
            /\ DefaultToneOf(result.sentiment_detected, result.tone_used)

\* a neutral comment without override is answered in the inviting tone
C2_Witness ==
    /\ Returned /\ custom_tone = None
    /\ result.success
    /\ result.sentiment_detected = "neutral"
    /\ result.tone_used = "inviting"

\* C3: an override that is one of the five known tones is the tone used,
\* whatever the comment and its sentiment, and the sentiment reported is
\* still the one computed from the comment.
C3_KnownOverride ==
    InReply /\ custom_tone \in KnownTones /\ tone # Unbound =>
        /\ tone = custom_tone
        /\ Returned =>
            /\ result.tone_used = custom_tone
            /\ ClassifiedAs(comment.chars, result.sentiment_detected)

\* scenario 4: a neutral comment with the override witty
C3_Witness ==
    /\ Returned /\ custom_tone = "witty"
    /\ result.success
    /\ result.sentiment_detected = "neutral"
    /\ result.tone_used = "witty"

\* C4: for every override string that is present but not one of the five
\* known tones, the tone used reported by generate_reply is inviting.  Present
\* is read as the code reads it (a non-empty string), and the tone is one the
\* call got to resolve.
C4_UnknownOverrideReportedInviting ==
    Returned /\ tone # Unbound
        /\ custom_tone \in ToneStrings \ KnownTones /\ Truthy(custom_tone) =>
            result.tone_used = "inviting"

\* C5: create_prompt with a tone string outside the five known tones gives
\* exactly the prompt of the inviting tone for the same comment, and does
\* not fail.
C5_UnknownToneComposesInviting ==
    tone \in ToneStrings \ KnownTones =>
        /\ failedAt \notin {"L64", "L105"}
        /\ pc # "prompt_raised"
        /\ prompt # NoPrompt =>
            /\ prompt = create_prompt(comment, "inviting")
            /\ prompt.comment = comment
            /\ PromptOfTone(prompt, "inviting")

\* create_prompt was applied to a tone that is not known
C5_Witness ==
    /\ tone = "sarcastic"
    /\ prompt # NoPrompt
    /\ prompt.tone_specific = "Your reply should encourage continued conversation and reflection. It should:"

\* C6: for every generate_reply that reaches the external call, the prompt
\* handed to the call carries the block and ToneProfile of the tone the
\* result reports as tone used.
C6_OneToneSentAndReported ==
    Returned /\ ReachedCall => PromptOfTone(sent.user, result.tone_used)

\* C7: when the external call fails (the provider raises, or its response
\* has no choice or no content), the result has success false, no reply, the
\* failure's description as error, and the sentiment and tone computed
\* before the call.
C7_ExternalFailure ==
    Returned /\ failedAt \in {"L108", "L119"} =>
        /\ result.success = FALSE
        /\ result.reply = PyNone
        /\ result.error = exc /\ result.error # None
        /\ provider.kind = "raise" => result.error = provider.message
        /\ result.sentiment_detected = sentiment
        /\ ClassifiedAs(comment.chars, result.sentiment_detected)
        /\ result.sentiment_detected \in Sentiments
        /\ result.tone_used = tone
        /\ result.tone_used \notin {None, Unbound}

\* the provider answered with an empty choice list
C7_Witness ==
    /\ Returned /\ failedAt = "L119"
    /\ provider.choices = <<>>
    /\ result.success = FALSE
    /\ result.sentiment_detected = "struggling"
    /\ result.tone_used = "empathetic"

\* what a returned result reports after a failure at a given line
C8_Reported ==
    Returned /\ failedAt # "none" =>
        /\ result.success = FALSE
        /\ result.sentiment_detected # None <=> failedAt # "L101"
        /\ result.tone_used # None <=> failedAt \notin {"L101", "L102"}

\* C8: a failure raised in any step of generate_reply is not propagated: the
\* step that raises hands control to the handler, the handler returns a
\* result with success false, and sentiment detected / tone used are
\* populated exactly when their step had completed before the failure.
C8_FailuresReturnedAsData ==
    /\ []C8_Reported
    /\ [][InReply /\ failedAt = "none" /\ failedAt' # "none" => pc' = "L129"]_vars
    /\ [][pc = "L129" => pc' = "returned" /\ result'.success = FALSE]_vars

\* classification failed: neither sentiment nor tone is reported
C8_Witness ==
    /\ Returned /\ failedAt = "L101"
    /\ result.success = FALSE
    /\ result.sentiment_detected = None
    /\ result.tone_used = None

\* success, error and reply of one result agree
C9_Coherent(r) ==
    /\ r.success <=> r.error = None
    /\ r.success <=> r.reply # PyNone

\* C9: when the external call returns text, the result has success true, the
\* trimmed text as reply, no error, and sentiment and tone populated; every
\* result returned has success true iff error absent iff reply present.
C9_SuccessResult ==
    /\ Returned /\ provider.kind = "response"
         /\ provider.choices # <<>> /\ IsStr(provider.choices[1].content) =>
            /\ result.success = TRUE
            /\ IsStr(result.reply)
            /\ IsTrimOf(result.reply.chars, provider.choices[1].content.chars)
            /\ result.error = None
            /\ result.sentiment_detected \in Sentiments
            /\ result.tone_used \notin {None, Unbound}
    /\ Returned => C9_Coherent(result)
    /\ \A k \in 1..Len(results) : C9_Coherent(results[k])

\* a text with a leading blank came back and was trimmed
C9_Witness ==
    /\ Returned /\ result.success
    /\ provider.choices[1].content.chars = <<" ", "a">>
    /\ result.reply = PyStr(<<"a">>)

\* the result at position k (from 1) of a batch is what generate_reply gives
\* for comment k, its own override and its own provider outcome
C10_ResultOf(k) ==
    LET c  == comments[k]
        r  == results[k]
        ct == IF (k - 1) \in DOMAIN custom_tones THEN custom_tones[k - 1] ELSE None
        ok == /\ IsStr(c)
              /\ apiLog[k].kind = "response"
              /\ apiLog[k].choices # <<>>
              /\ IsStr(apiLog[k].choices[1].content)
    IN  /\ r.success <=> ok
        /\ IsStr(c) =>
            /\ ClassifiedAs(c.chars, r.sentiment_detected)
            /\ IF Truthy(ct)
               THEN r.tone_used = ct
               ELSE DefaultToneOf(r.sentiment_detected, r.tone_used)
        /\ ~IsStr(c) => r.sentiment_detected = None /\ r.tone_used = None
        /\ ok => IsTrimOf(r.reply.chars, apiLog[k].choices[1].content.chars)
        /\ ~ok => r.reply = PyNone /\ r.error # None

\* C10: a batch over N comments returns N results, result k being the result
\* of generate_reply on comment k with the override of index k; a failure at
\* one index gives success false there only and the loop goes on.
C10_BatchResults ==
    /\ mode = "batch" =>
        /\ Len(results) = i /\ Len(apiLog) = i /\ i <= Len(comments)
        /\ \A k \in 1..Len(results) : C10_ResultOf(k)
    /\ pc = "L157" => Len(results) = Len(comments)

\* the first comment failed at the external call, the second succeeded
C10_Witness ==
    /\ pc = "L157"
    /\ Len(results) = 2
    /\ apiLog[1].kind = "raise"
    /\ results[1].success = FALSE
    /\ results[2].success = TRUE

\* the lines of generate_reply before the external call is issued
BeforeCall == {"L101", "L102", "L105", "L108"}

\* C11: no retries and no overlap: a generate_reply issues at most one
\* external call, exactly one when classification and composition succeeded
\* and none otherwise; a failed call goes to the result without a second
\* attempt; in a batch the call for a comment is issued only when the results
\* of all comments before it have been produced, in input order.
C11_OneCallInOrder ==
    /\ api_calls \in {0, 1}
    /\ InReply /\ pc \in BeforeCall => api_calls = 0
    /\ InReply /\ pc = "L119" => api_calls = 1
    /\ Returned => api_calls = (IF failedAt \in {"L101", "L105"} THEN 0 ELSE 1)
    /\ Returned /\ failedAt = "L108" => provider.kind = "raise" /\ ~result.success
    /\ mode = "batch" /\ pc \in BeforeCall \cup {"L119", "L129", "returned"} =>
        /\ i < Len(comments)
        /\ comment = comments[i + 1]
        /\ Len(results) = i
        /\ Len(apiLog) = i

\* the call for the second comment of a batch failed, once, after the result
\* of the first comment was there
C11_Witness ==
    /\ mode = "batch" /\ pc = "returned"
    /\ i = 1 /\ Len(results) = 1
    /\ failedAt = "L108"
    /\ api_calls = 1

\* neither the argument nor the environment gives a non-empty key
NoCredential == key_arg \in {None, ""} /\ env_key \in {None, ""}

\* control is inside generate_reply or past it
InsideReply == pc \in BeforeCall \cup {"L119", "L129", "returned", "L174"}

\* C12: with the API credential missing (not passed and not in the
\* environment, the empty string included) initialisation fails with the
\* descriptive error before a client exists, and no external call is ever
\* attempted, through CommentReplyAI or through generate_comment_reply.
C12_NoCredentialNoCall ==
    /\ pc # "new" /\ NoCredential =>
        /\ pc = "init_failed"
        /\ init_error = "OpenAI API key is required. Set OPENAI_API_KEY in .env file or pass api_key parameter."
        /\ client = NoClient
        /\ self = NoInstance
        /\ api_calls = 0 /\ sent = NoRequest /\ provider = NoProvider
    /\ client = NoClient => ~InsideReply /\ api_calls = 0
    /\ pc = "init_failed" => NoCredential

\* generate_comment_reply was called with an empty key and an empty
\* OPENAI_API_KEY: initialisation failed and the comment was never processed
C12_Witness ==
    /\ pc = "init_failed"
    /\ mode = "single" /\ IsStr(comment)
    /\ key_arg = "" /\ env_key = ""
    /\ client = NoClient /\ api_calls = 0

\* C13: no call mutates shared state: the configuration (model, max tokens,
\* temperature, top-p) and the tone-profile table stay as initialisation set
\* them, also when a model override is passed, so the sentiment and tone
\* reported depend on the comment and the override alone, whatever calls,
\* successes or failures came before.
C13_ConfigurationUnchanged ==
    /\ self = [ model |-> "gpt-4", max_tokens |-> 300,
                temperature |-> "0.7", top_p |-> "0.9" ]
    /\ prompt_generator.tone_guidelines = tone_guidelines
    /\ prompt_generator.base_instructions = base_instructions
    /\ InReply /\ pc \in {"L119", "L129", "returned"} /\ ReachedCall =>
        /\ sent.max_tokens = 300 /\ sent.temperature = "0.7" /\ sent.top_p = "0.9"
        /\ sent.model \in {"gpt-4", "gpt-3.5-turbo"}
    /\ Returned /\ IsStr(comment) =>
        /\ ClassifiedAs(comment.chars, result.sentiment_detected)
        /\ IF Truthy(custom_tone)
           THEN result.tone_used = custom_tone
           ELSE DefaultToneOf(result.sentiment_detected, result.tone_used)

\* a call with a model override was sent with that model, and the default
\* model of the instance is still the initial one
C13_Witness ==
    /\ Returned /\ result.success
    /\ model = "gpt-3.5-turbo" /\ sent.model = "gpt-3.5-turbo"
    /\ self.model = "gpt-4"

\* the conversation is a sequence of pairs: a user message, then one AI message
C14_Paired ==
    /\ Len(messages) % 2 = 0
    /\ \A k \in 1..Len(messages) :
        messages[k].type = (IF k % 2 = 1 THEN "user" ELSE "ai")

\* C14: in the chat UI a failed reply is shown as a labelled error state:
\* after a send whose result has success false, exactly one AI message follows
\* the user message, it carries success false, and the reply text displayed
\* for it is the placeholder 'Error generating reply', not an absent value.
C14_FailedReplyShowsPlaceholder ==
    mode = "idle" /\ pc = "idle" =>
        /\ C14_Paired
        /\ \A k \in 1..Len(messages) :
            messages[k].type = "ai" /\ messages[k].success = FALSE =>
                /\ StatusIcon(messages[k]) = "error"
                /\ DisplayedReply(messages[k]) = ErrorPlaceholder.chars

RECURSIVE SumCounts(_)
\* the sum of the counts of a usage dict
SumCounts(d) ==
    IF DOMAIN d = {} THEN 0
    ELSE LET k == CHOOSE x \in DOMAIN d : TRUE
         IN  d[k] + SumCounts([x \in DOMAIN d \ {k} |-> d[x]])

\* C15: after any sequence of sends and clears, 0 <= successful_replies <=
\* total_messages, the per-tone counts sum to successful_replies and so do
\* the per-sentiment counts; with the message list cleared all four are zero
\* or empty.
C15_Counters ==
    /\ 0 <= stats.successful_replies
    /\ stats.successful_replies <= stats.total_messages
    /\ SumCounts(stats.tone_usage) = stats.successful_replies
    /\ SumCounts(stats.sentiment_distribution) = stats.successful_replies
    /\ \A t \in DOMAIN stats.tone_usage : stats.tone_usage[t] >= 1
    /\ messages = <<>> =>
        /\ stats.total_messages = 0 /\ stats.successful_replies = 0
        /\ DOMAIN stats.tone_usage = {} /\ DOMAIN stats.sentiment_distribution = {}

\* two comments were sent, one reply failed and one succeeded
C15_Witness ==
    /\ pc = "idle" /\ Len(messages) = 4
    /\ stats.total_messages = 2
    /\ stats.successful_replies = 1
    /\ SumCounts(stats.tone_usage) = 1

====
